---- MODULE Spec2Model ----
(***************************************************************************)
(* Casing-prefix normalizer and pre-tokenizer of the tokenizers crate.     *)
(*                                                                         *)
(* Strings are sequences of UTF-8 bytes (integers 0..255).  The alphabet   *)
(* is restricted to code points below 256, so a character takes one byte   *)
(* (ASCII) or two bytes (Latin-1 supplement).  All offsets are 0-based     *)
(* byte offsets as in the Rust code; sequences stay 1-based.               *)
(*                                                                         *)
(* A value that is used more than once is bound by a set over a singleton  *)
(* (The({e(v) : v \in {x}})), which makes TLC compute it once.             *)
(***************************************************************************)
EXTENDS Integers, Sequences, FiniteSets, TLC

\* ------------------------------------------------------------------ bounds
MaxLen == 3
MaxNormalize == 2
MaxPreTok == 2

\* ----------------------------------------------------------------- helpers
The(S) == CHOOSE x \in S : TRUE
Least(S) == CHOOSE x \in S : \A y \in S : x <= y

\* Option<T>
None == [some |-> FALSE]
Some(v) == [some |-> TRUE, val |-> v]

\* --------------------------------------------------------- UTF-8 and chars
\* A continuation byte 10xxxxxx: str::is_char_boundary is false exactly there.
IsContinuation(b) == b >= 128 /\ b < 192

\* Number of bytes of the character whose lead byte is b (char::len_utf8).
Utf8Width(b) == IF b < 128 THEN 1 ELSE 2

\* UTF-8 encoding of a code point below 256.
Encode(cp) == IF cp < 128 THEN <<cp>> ELSE <<192 + (cp \div 64), 128 + (cp % 64)>>

\* The code point whose encoding starts at 1-based index i of s.
DecodeAt(s, i) == IF s[i] < 128 THEN s[i] ELSE (s[i] - 192) * 64 + (s[i + 1] - 128)

\* The 1-based index of the first byte of the character that byte i of s
\* belongs to.
LeadOf(s, i) == IF IsContinuation(s[i]) THEN i - 1 ELSE i

\* str::char_indices: the 1-based indices at which the characters of s start.
CharStarts(s) == {i \in 1..Len(s) : ~IsContinuation(s[i])}

\* str::is_char_boundary(idx), idx a 0-based byte offset.
is_char_boundary(s, idx) ==
    \/ idx = 0
    \/ idx = Len(s)
    \/ idx < Len(s) /\ ~IsContinuation(s[idx + 1])

\* char::is_ascii_digit
is_ascii_digit(c) == c >= 48 /\ c <= 57

\* char::is_lowercase (Unicode Lowercase property, code points below 256)
is_lowercase(c) ==
    \/ c >= 97 /\ c <= 122
    \/ c \in {170, 181, 186}
    \/ c >= 223 /\ c <= 246
    \/ c >= 248 /\ c <= 255

\* char::is_uppercase (Unicode Uppercase property, code points below 256)
is_uppercase(c) ==
    \/ c >= 65 /\ c <= 90
    \/ c >= 192 /\ c <= 214
    \/ c >= 216 /\ c <= 222

\* The regex class \w (Unicode): alphabetic, decimal digit or connector
\* punctuation, for code points below 256.
IsWordChar(c) ==
    \/ is_ascii_digit(c)
    \/ c = 95
    \/ is_lowercase(c)
    \/ is_uppercase(c)

\* char::to_lowercase for code points below 256.
char_to_lowercase(c) == IF is_uppercase(c) THEN c + 32 ELSE c

\* str::to_lowercase: every character is decoded, lowercased and encoded
\* again.  Below code point 256 a character and its lowercase take the same
\* number of bytes, so byte i of the result is a byte of the lowercase of
\* the character that byte i of s belongs to.
to_lowercase(s) ==
    <<>> \o [i \in 1..Len(s) |->
                Encode(char_to_lowercase(DecodeAt(s, LeadOf(s, i))))[i - LeadOf(s, i) + 1]]

\* chars().all(|c| ...) for the three character tests.
all_ascii_digit(s) == \A i \in CharStarts(s) : is_ascii_digit(DecodeAt(s, i))
all_lowercase(s) == \A i \in CharStarts(s) : is_lowercase(DecodeAt(s, i))
all_uppercase(s) == \A i \in CharStarts(s) : is_uppercase(DecodeAt(s, i))

\* chars().skip(1).all(|c| c.is_lowercase())
skip1_all_lowercase(s) ==
    \A i \in CharStarts(s) \ {1} : is_lowercase(DecodeAt(s, i))

\* chars().next().map_or(false, |c| c.is_uppercase())
first_is_uppercase(s) == s # <<>> /\ is_uppercase(DecodeAt(s, 1))

\* &s[from..]: the bytes from 0-based offset `from` on.
StrFrom(s, from) == SubSeq(s, from + 1, Len(s))

\* ------------------------------------------------------------ marker tokens
\* "[CAP]", "[ALLCAPS]", "[MIXED]" (normalizer form, no separator)
N_TOKEN_CAPITALISED == <<91, 67, 65, 80, 93>>
N_TOKEN_ALL_CAPS == <<91, 65, 76, 76, 67, 65, 80, 83, 93>>
N_TOKEN_MIXED_CASE == <<91, 77, 73, 88, 69, 68, 93>>

\* "[CAP] ", "[ALLCAPS] ", "[MIXED] " (pre-tokenizer form, trailing space)
P_TOKEN_CAPITALISED == <<91, 67, 65, 80, 93, 32>>
P_TOKEN_ALL_CAPS == <<91, 65, 76, 76, 67, 65, 80, 83, 93, 32>>
P_TOKEN_MIXED_CASE == <<91, 77, 73, 88, 69, 68, 93, 32>>

\* ------------------------------------------------------------- process_word
\* The result of a call: a returned string, or a panic that unwinds the call.
Returned(s) == [panic |-> FALSE, out |-> s]
Panicked == [panic |-> TRUE, out |-> <<>>]

\* process_word with the markers left out.
normalizer_process_word_without_marker(word) ==
    IF all_ascii_digit(word) \/ all_lowercase(word) THEN Returned(word)
    ELSE Returned(to_lowercase(word))

\* normalizers::CasingPrefix::process_word.  The third test slices the word
\* at byte 1 (word[1..]); the slice panics when byte 1 is not a character
\* boundary.  && short-circuits, so the slice happens only when the first
\* character is uppercase.
normalizer_process_word(word) ==
    IF all_ascii_digit(word) THEN Returned(word)
    ELSE IF all_lowercase(word) THEN Returned(word)
    ELSE IF first_is_uppercase(word) /\ ~is_char_boundary(word, 1) THEN Panicked
    ELSE IF first_is_uppercase(word) /\ all_lowercase(StrFrom(word, 1))
        THEN Returned(N_TOKEN_CAPITALISED \o to_lowercase(word))
    ELSE IF all_uppercase(word)
        THEN Returned(N_TOKEN_ALL_CAPS \o to_lowercase(word))
    ELSE Returned(N_TOKEN_MIXED_CASE \o to_lowercase(word))

\* pre_tokenizers::CasingPrefix::process_word.  The third test skips one
\* character (chars().skip(1)), which cannot fail.
pre_tokenizer_process_word(word) ==
    IF all_ascii_digit(word) THEN Returned(word)
    ELSE IF all_lowercase(word) THEN Returned(word)
    ELSE IF first_is_uppercase(word) /\ skip1_all_lowercase(word)
        THEN Returned(P_TOKEN_CAPITALISED \o to_lowercase(word))
    ELSE IF all_uppercase(word)
        THEN Returned(P_TOKEN_ALL_CAPS \o to_lowercase(word))
    ELSE Returned(P_TOKEN_MIXED_CASE \o to_lowercase(word))

\* ------------------------------------------------------------ word matching
\* Byte i of s belongs to a character of the class \w.
InWord(s, i) == IsWordChar(DecodeAt(s, LeadOf(s, i)))

\* The first match of \w+ in s at or after the 0-based offset from, as the
\* 0-based byte range <<start, end>> of a maximal run of word characters;
\* <<>> when there is none.
find_at(s, from) ==
    IF \A i \in (from + 1)..Len(s) : ~InWord(s, i) THEN <<>>
    ELSE The({<<st - 1,
                CHOOSE e \in st..Len(s) :
                    /\ \A j \in st..e : InWord(s, j)
                    /\ e = Len(s) \/ ~InWord(s, e + 1)>> :
              st \in {CHOOSE i \in (from + 1)..Len(s) :
                        InWord(s, i) /\ \A j \in (from + 1)..(i - 1) : ~InWord(s, j)}})

\* word_regex.find_iter(s) for the pattern \w+ : the matches left to right,
\* each search starting where the match before ended.
find_iter(s) ==
    LET Next[from \in 0..Len(s)] ==
            The({IF m = <<>> THEN <<>> ELSE <<m>> \o Next[m[2]] :
                 m \in {find_at(s, from)}})
    IN  Next[0]

\* Match::as_str
as_str(s, m) == SubSeq(s, m[1] + 1, m[2])

\* --------------------------------------------------------- NormalizedString
\* A NormalizedString: the original text of the segment, its current
\* (normalized) text, one alignment <<start, end>> into the segment's own
\* original text per byte of the current text, and the offset of the
\* segment's original text in the whole input.
NormalizedString(o, n, a, shift) ==
    [original |-> o, normalized |-> n, alignments |-> a, original_shift |-> shift]

\* NormalizedString::from(&str): every byte of a character is aligned with
\* the byte range of that character.
ns_from(s) ==
    NormalizedString(s, s,
        <<>> \o [i \in 1..Len(s) |->
                    <<LeadOf(s, i) - 1, LeadOf(s, i) - 1 + Utf8Width(s[LeadOf(s, i)])>>],
        0)

\* NormalizedString::get
get(ns) == ns.normalized

\* NormalizedString::offsets_original: the segment's range in the input.
offsets_original(ns) ==
    <<ns.original_shift, ns.original_shift + Len(ns.original)>>

\* str::get(a..b): None when the range is reversed, out of bounds or does
\* not lie on character boundaries.
str_get(s, a, b) ==
    IF a <= b /\ b <= Len(s) /\ is_char_boundary(s, a) /\ is_char_boundary(s, b)
    THEN Some(SubSeq(s, a + 1, b))
    ELSE None

\* Option::unwrap_or_default for strings
unwrap_or_default(o) == IF o.some THEN o.val ELSE <<>>

\* The loop of convert_offsets over the alignments al, for the range ts..te
\* of the original text.  The alignments are walked while their end does
\* not pass te (take_while); walked is their number.
Walked(al, te) ==
    IF \A i \in 1..Len(al) : te >= al[i][2] THEN Len(al)
    ELSE (CHOOSE i \in 1..Len(al) :
            ~(te >= al[i][2]) /\ \A j \in 1..(i - 1) : te >= al[j][2]) - 1

\* start: the 0-based index of the first walked alignment of non-zero width
\* that starts at or after ts; -1 while it is None.
WalkStart(al, ts, walked) ==
    IF \A i \in 1..walked : ~(ts <= al[i][1] /\ al[i][1] # al[i][2]) THEN -1
    ELSE (CHOOSE i \in 1..walked :
            /\ ts <= al[i][1] /\ al[i][1] # al[i][2]
            /\ \A j \in 1..(i - 1) : ~(ts <= al[j][1] /\ al[j][1] # al[j][2])) - 1

\* NormalizedString::convert_offsets(Range::Original(ts..te)): the range of
\* the current text aligned with the range ts..te of the segment's original
\* text.  end is the index after the last walked alignment.
convert_offsets_original(ns, ts, te) ==
    IF ts = te THEN Some(<<ts, te>>)
    ELSE IF ts > te THEN None
    ELSE The({The({IF start # -1 /\ walked = 0 THEN Some(<<start, start>>)
                   ELSE IF start = -1 /\ walked # 0 THEN Some(<<walked, walked>>)
                   ELSE IF start # -1 /\ walked # 0 THEN Some(<<start, walked>>)
                   ELSE None :
                   start \in {WalkStart(ns.alignments, ts, walked)}}) :
              walked \in {Walked(ns.alignments, te)}})

\* NormalizedString::slice(Range::Original(ts..te)): the sub-segment for the
\* range ts..te of the segment's original text, or None when the range has
\* no aligned counterpart in the current text.
slice_original(ns, ts, te) ==
    The({IF ~conv.some THEN None
         ELSE IF ~(conv.val[1] <= conv.val[2] /\ conv.val[2] <= Len(ns.alignments))
             THEN None
         ELSE Some(NormalizedString(
                unwrap_or_default(str_get(ns.original, ts, te)),
                unwrap_or_default(str_get(ns.normalized, conv.val[1], conv.val[2])),
                <<>> \o [k \in 1..(conv.val[2] - conv.val[1]) |->
                            <<ns.alignments[conv.val[1] + k][1] - ts,
                              ns.alignments[conv.val[1] + k][2] - ts>>],
                ns.original_shift + ts)) :
         conv \in {convert_offsets_original(ns, ts, te)}})

\* The 0-based offsets at or after from at which the literal pattern occurs
\* in n.
OccurrencesFrom(n, pattern, from) ==
    {j \in from..(Len(n) - Len(pattern)) : SubSeq(n, j + 1, j + Len(pattern)) = pattern}

\* NormalizedString::replace(pattern: &str, content): every non-overlapping
\* occurrence of the literal pattern in the current text, left to right, is
\* replaced by content; each byte of content takes the alignment of the
\* last byte it replaces.  An empty pattern matches nothing.
replaced_text(n, pattern, content) ==
    LET Rep[from \in 0..Len(n)] ==
            The({IF occ = {} THEN SubSeq(n, from + 1, Len(n))
                 ELSE SubSeq(n, from + 1, Least(occ)) \o content
                      \o Rep[Least(occ) + Len(pattern)] :
                 occ \in {OccurrencesFrom(n, pattern, from)}})
    IN  Rep[0]

replaced_alignments(n, al, pattern, content) ==
    LET Rep[from \in 0..Len(n)] ==
            The({IF occ = {} THEN SubSeq(al, from + 1, Len(n))
                 ELSE SubSeq(al, from + 1, Least(occ))
                      \o [k \in 1..Len(content) |-> al[Least(occ) + Len(pattern)]]
                      \o Rep[Least(occ) + Len(pattern)] :
                 occ \in {OccurrencesFrom(n, pattern, from)}})
    IN  Rep[0]

replace(ns, pattern, content) ==
    IF pattern = <<>> THEN ns
    ELSE The({NormalizedString(ns.original,
                               replaced_text(ns.normalized, p, c),
                               replaced_alignments(ns.normalized, ns.alignments, p, c),
                               ns.original_shift) :
              p \in {pattern}, c \in {content}})

\* One observed call of process_word: the word it was given and its result.
Call(word, r) == [word |-> word, panic |-> r.panic, out |-> r.out]

\* ------------------------------------------------ normalizers::CasingPrefix
\* find_iter(text).map(|word| process_word(word.as_str())) over the matches
\* ms, in match order.
NormalizerCalls(text, ms) ==
    <<>> \o [k \in 1..Len(ms) |->
                Call(as_str(text, ms[k]), normalizer_process_word(as_str(text, ms[k])))]

\* The calls of process_word that collect() makes: all of them, or those up
\* to the first that panics, which ends the collection.
ProcessWords(text) ==
    The({IF \A k \in 1..Len(calls) : ~calls[k].panic THEN calls
         ELSE SubSeq(calls, 1, Least({k \in 1..Len(calls) : calls[k].panic})) :
         calls \in {NormalizerCalls(text, ms) : ms \in {find_iter(text)}}})

\* Vec<String>::join(" ") over the results of the calls rs.
Join(rs) ==
    LET J[k \in 1..Len(rs)] ==
            IF k = Len(rs) THEN rs[k].out ELSE rs[k].out \o <<32>> \o J[k + 1]
    IN  IF rs = <<>> THEN <<>> ELSE J[1]

\* Normalizer::normalize: the buffer after the call, or a panic, which
\* leaves the buffer as it was.
normalize(ns) ==
    The({IF \E k \in 1..Len(calls) : calls[k].panic
         THEN [panic |-> TRUE, ns |-> ns]
         ELSE [panic |-> FALSE, ns |-> replace(ns, get(ns), Join(calls))] :
         calls \in {ProcessWords(get(ns))}})

\* -------------------------------------------- pre_tokenizers::CasingPrefix
\* The calls of process_word for the first n of the matches ms.
PreTokenizerCalls(normalized, ms, n) ==
    <<>> \o [k \in 1..n |->
                Call(as_str(get(normalized), ms[k]),
                     pre_tokenizer_process_word(as_str(get(normalized), ms[k])))]

\* One turn of the loop for the match m whose slice sl succeeded: the slice
\* with the word replaced by the processed word.
Replaced(sl, word) == replace(sl, word, pre_tokenizer_process_word(word).out)

SubSegment(normalized, m) ==
    The({Replaced(sl.val, word) :
         sl \in {slice_original(normalized, m[1], m[2])},
         word \in {as_str(get(normalized), m)}})

\* The loop with every slice taken from the start of the segment
\* (0..word.end()) instead of from the start of the word.
BuildSplits_slicing_from_zero(normalized, ms) ==
    The({IF failed = {}
         THEN [err |-> FALSE,
               out |-> <<>> \o [k \in 1..Len(ms) |->
                          Replaced(slice_original(normalized, 0, ms[k][2]).val,
                                   as_str(get(normalized), ms[k]))],
               calls |-> Len(ms),
               words |-> PreTokenizerCalls(normalized, ms, Len(ms))]
         ELSE [err |-> TRUE, out |-> <<>>, calls |-> Least(failed),
               words |-> PreTokenizerCalls(normalized, ms, Least(failed))] :
         failed \in {{k \in 1..Len(ms) :
                        ~slice_original(normalized, 0, ms[k][2]).some}}})

\* The 1-based indices of the matches ms whose slice returns None.
FailedSlices(normalized, ms) ==
    {k \in 1..Len(ms) : ~slice_original(normalized, ms[k][1], ms[k][2]).some}

\* The loop with a failed slice skipped instead of returned as an error.
BuildSplits_skipping_failed_slice(normalized, ms) ==
    The({[err |-> FALSE,
          out |-> <<>> \o [k \in 1..Len(kept) |-> SubSegment(normalized, kept[k])],
          calls |-> Len(ms),
          words |-> PreTokenizerCalls(normalized, ms, Len(ms))] :
         kept \in {SelectSeq(ms, LAMBDA m :
                        slice_original(normalized, m[1], m[2]).some)}})

\* The loop of the closure of pre_tokenize over the matches ms of one
\* segment: each turn processes the word, slices the segment by the match's
\* range and replaces the word in the slice by the processed word.  The
\* turns do not depend on each other, so the loop either reaches the first
\* match whose slice fails, where the closure returns the error and drops
\* the sub-segments built so far, or builds one sub-segment per match.
\* calls counts the slices asked, words keeps the calls of process_word.
BuildSplits(normalized, ms) ==
    The({IF failed = {}
         THEN [err |-> FALSE,
               out |-> <<>> \o [k \in 1..Len(ms) |-> SubSegment(normalized, ms[k])],
               calls |-> Len(ms),
               words |-> PreTokenizerCalls(normalized, ms, Len(ms))]
         ELSE [err |-> TRUE, out |-> <<>>, calls |-> Least(failed),
               words |-> PreTokenizerCalls(normalized, ms, Least(failed))] :
         failed \in {FailedSlices(normalized, ms)}})

\* The closure without its branch for a segment that has no match.
split_fn_without_unmatched_branch(normalized) ==
    The({BuildSplits(normalized, ms) : ms \in {find_iter(get(normalized))}})

\* The closure given to split: the sub-segments of the loop, or the segment
\* itself when the loop built none.
split_fn(normalized) ==
    The({IF r.err THEN r
         ELSE IF r.out = <<>> THEN [r EXCEPT !.out = <<normalized>>]
         ELSE r :
         r \in {BuildSplits(normalized, ms) : ms \in {find_iter(get(normalized))}}})

\* The slices asked and the calls of process_word made for the first n
\* segments, given the closure's results rs.
SumCalls(rs, n) ==
    LET S[i \in 0..n] == IF i = 0 THEN 0 ELSE S[i - 1] + rs[i].calls
    IN  S[n]

ConcatWords(rs, n) ==
    LET S[i \in 0..n] == IF i = 0 THEN <<>> ELSE S[i - 1] \o rs[i].words
    IN  S[n]

\* PreTokenizedString::split: the segments are drained and each is replaced
\* by the sub-segments the closure returns for it that have a non-empty
\* text, in order; the first error ends the call and leaves no segment
\* behind.  emitted keeps, per segment, what it was replaced by.
split(ss) ==
    The({IF \A i \in 1..Len(ss) : ~rs[i].err
         THEN [err |-> FALSE,
               emitted |-> <<>> \o [i \in 1..Len(ss) |->
                              SelectSeq(rs[i].out, LAMBDA x : get(x) # <<>>)],
               calls |-> SumCalls(rs, Len(ss)),
               words |-> ConcatWords(rs, Len(ss))]
         ELSE The({[err |-> TRUE, emitted |-> <<>>,
                    calls |-> SumCalls(rs, f), words |-> ConcatWords(rs, f)] :
                   f \in {Least({i \in 1..Len(ss) : rs[i].err})}}) :
         rs \in {<<>> \o [i \in 1..Len(ss) |-> split_fn(ss[i])]}})

\* The segments of all the lists of sss, in order.
Flatten(sss) ==
    LET F[i \in 0..Len(sss)] == IF i = 0 THEN <<>> ELSE F[i - 1] \o sss[i]
    IN  F[Len(sss)]

\* PreTokenizer::pre_tokenize
pre_tokenize(ss) == split(ss)

\* PreTokenizedString::from(NormalizedString): one segment, the whole buffer.
pretokenized_from(ns) == <<ns>>

\* ------------------------------------------------------------ state machine
VARIABLES
    input,       \* the original text handed to the pipeline
    phase,       \* "text": a NormalizedString buffer; "pretok": a PreTokenizedString
    norm,        \* the buffer the normalizer works on
    splits,      \* the segments of the PreTokenizedString
    lastOp,      \* the operation applied last
    result,      \* how it ended: "ok", "err" (Err returned) or "panic"
    nNorm,       \* number of normalize calls so far
    nPre,        \* number of pre_tokenize calls so far
    prevNorm,    \* the buffer before the last normalize
    prevSplits,  \* the segments before the last pre_tokenize
    emitted,     \* per segment of prevSplits, the segments that replaced it
    words,       \* the calls of process_word made by the last operation
    sliceCalls   \* the slice calls made by the last pre_tokenize

vars == <<input, phase, norm, splits, lastOp, result, nNorm, nPre,
          prevNorm, prevSplits, emitted, words, sliceCalls>>

\* The characters inputs are made of: a A 1 _ space - and the two-byte
\* letters U+00C9 (uppercase) and U+00E9 (lowercase).
InChars == {97, 65, 49, 95, 32, 45, 201, 233}

\* The UTF-8 encoding of a sequence of code points.
EncodeAll(cs) ==
    LET E[k \in 0..Len(cs)] == IF k = 0 THEN <<>> ELSE E[k - 1] \o Encode(cs[k])
    IN  E[Len(cs)]

\* Longer inputs: those of the two components' tests,
\* "Hello WORLD MixedCase 123 lowercase" and "ALL123CAPS 123 mIxEd123CaSe",
\* and two short phrases, "lowercase Hello" and "123 Abc".
Samples ==
    {<<72, 101, 108, 108, 111, 32, 87, 79, 82, 76, 68, 32, 77, 105, 120, 101,
       100, 67, 97, 115, 101, 32, 49, 50, 51, 32, 108, 111, 119, 101, 114, 99,
       97, 115, 101>>,
     <<65, 76, 76, 49, 50, 51, 67, 65, 80, 83, 32, 49, 50, 51, 32, 109, 73,
       120, 69, 100, 49, 50, 51, 67, 97, 83, 101>>,
     <<108, 111, 119, 101, 114, 99, 97, 115, 101, 32, 72, 101, 108, 108, 111>>,
     <<49, 50, 51, 32, 65, 98, 99>>}

Texts ==
    {EncodeAll(cs) : cs \in UNION {[1..n -> InChars] : n \in 0..MaxLen}}
        \cup Samples

Init ==
    /\ input \in Texts
    /\ phase = "text"
    /\ norm = ns_from(input)
    /\ splits = <<>>
    /\ lastOp = "none"
    /\ result = "ok"
    /\ nNorm = 0
    /\ nPre = 0
    /\ prevNorm = ns_from(input)
    /\ prevSplits = <<>>
    /\ emitted = <<>>
    /\ words = <<>>
    /\ sliceCalls = 0

\* normalizer.normalize(&mut norm)
Normalize ==
    /\ phase = "text"
    /\ result # "panic"
    /\ nNorm < MaxNormalize
    /\ \E r \in {normalize(norm)} :
          /\ norm' = r.ns
          /\ result' = IF r.panic THEN "panic" ELSE "ok"
    /\ words' = ProcessWords(get(norm))
    /\ prevNorm' = norm
    /\ lastOp' = "normalize"
    /\ nNorm' = nNorm + 1
    /\ UNCHANGED <<input, phase, splits, nPre, prevSplits, emitted, sliceCalls>>

\* PreTokenizedString::from(norm)
IntoPreTokenized ==
    /\ phase = "text"
    /\ result # "panic"
    /\ phase' = "pretok"
    /\ splits' = pretokenized_from(norm)
    /\ lastOp' = "from"
    /\ result' = "ok"
    /\ words' = <<>>
    /\ UNCHANGED <<input, norm, nNorm, nPre, prevNorm, prevSplits, emitted,
                   sliceCalls>>

\* pre_tokenizer.pre_tokenize(&mut pretokenized)
PreTokenize ==
    /\ phase = "pretok"
    /\ result = "ok"
    /\ nPre < MaxPreTok
    /\ \E r \in {pre_tokenize(splits)} :
          /\ splits' = IF r.err THEN <<>> ELSE Flatten(r.emitted)
          /\ emitted' = r.emitted
          /\ words' = r.words
          /\ sliceCalls' = r.calls
          /\ result' = IF r.err THEN "err" ELSE "ok"
    /\ prevSplits' = splits
    /\ lastOp' = "pre_tokenize"
    /\ nPre' = nPre + 1
    /\ UNCHANGED <<input, phase, norm, nNorm, prevNorm>>

Next == Normalize \/ IntoPreTokenized \/ PreTokenize

Spec == Init /\ [][Next]_vars

\* ------------------------------------------------------------------ claims
\* The casing category of a word as the five predicates state it, over the
\* characters of the word: first match wins.
Category(word) ==
    IF \A i \in CharStarts(word) : is_ascii_digit(DecodeAt(word, i)) THEN "Digits"
    ELSE IF \A i \in CharStarts(word) : is_lowercase(DecodeAt(word, i)) THEN "Lowercase"
    ELSE IF /\ is_uppercase(DecodeAt(word, 1))
            /\ \A i \in CharStarts(word) \ {1} : is_lowercase(DecodeAt(word, i))
        THEN "Capitalized"
    ELSE IF \A i \in CharStarts(word) : is_uppercase(DecodeAt(word, i)) THEN "AllCaps"
    ELSE "Mixed"

Marked == {"Capitalized", "AllCaps", "Mixed"}

\* The marker of a category in the form of the component that ran.
MarkerOf(cat, op) ==
    IF op = "normalize"
    THEN CASE cat = "Capitalized" -> N_TOKEN_CAPITALISED
           [] cat = "AllCaps" -> N_TOKEN_ALL_CAPS
           [] cat = "Mixed" -> N_TOKEN_MIXED_CASE
           [] OTHER -> <<>>
    ELSE CASE cat = "Capitalized" -> P_TOKEN_CAPITALISED
           [] cat = "AllCaps" -> P_TOKEN_ALL_CAPS
           [] cat = "Mixed" -> P_TOKEN_MIXED_CASE
           [] OTHER -> <<>>

\* The processed word the predicates call for.
ExpectedWord(word, op) ==
    IF Category(word) \in Marked
    THEN MarkerOf(Category(word), op) \o to_lowercase(word)
    ELSE word

\* Some character of the word is an ASCII digit or an underscore.
HasDigitOrUnderscore(word) ==
    \E i \in 1..Len(word) : is_ascii_digit(word[i]) \/ word[i] = 95

\* The word is one uppercase letter.
IsSingleUppercase(word) ==
    Cardinality(CharStarts(word)) = 1 /\ is_uppercase(DecodeAt(word, 1))

\* C1: every call of process_word, in either component, returns the word
\* the five predicates in their fixed order call for; a single uppercase
\* letter comes back Capitalized and a word with a digit or underscore that
\* is not all ASCII digits comes back Mixed.
C1_ProcessWordFollowsPriority ==
    \A k \in 1..Len(words) :
        /\ ~words[k].panic
        /\ words[k].out = ExpectedWord(words[k].word, lastOp)
        /\ (IsSingleUppercase(words[k].word)
               => words[k].out = MarkerOf("Capitalized", lastOp)
                                    \o to_lowercase(words[k].word))
        /\ (HasDigitOrUnderscore(words[k].word) /\ Category(words[k].word) # "Digits"
               => words[k].out = MarkerOf("Mixed", lastOp)
                                    \o to_lowercase(words[k].word))

\* C4: classification never fails: no call of process_word panics, also for
\* a word whose first character takes more than one byte, and no operation
\* is ended by a panic.
C4_ClassificationTotal ==
    /\ result # "panic"
    /\ \A k \in 1..Len(words) : words[k].panic = FALSE

\* The pairs of the two forms of one marker.
MarkerForms ==
    {<<N_TOKEN_CAPITALISED, P_TOKEN_CAPITALISED>>,
     <<N_TOKEN_ALL_CAPS, P_TOKEN_ALL_CAPS>>,
     <<N_TOKEN_MIXED_CASE, P_TOKEN_MIXED_CASE>>}

\* C5: for every word either component processed, the normalizer and the
\* pre-tokenizer both return, with the same marker and the same lowercased
\* word; the pre-tokenizer's marker only has one more space.
C5_ComponentsAgree ==
    \A k \in 1..Len(words) :
        \A n \in {normalizer_process_word(words[k].word)} :
        \A p \in {pre_tokenizer_process_word(words[k].word)} :
            /\ ~n.panic
            /\ ~p.panic
            /\ \/ n.out = words[k].word /\ p.out = words[k].word
               \/ \E f \in MarkerForms :
                    /\ f[2] = f[1] \o <<32>>
                    /\ n.out = f[1] \o to_lowercase(words[k].word)
                    /\ p.out = f[2] \o to_lowercase(words[k].word)

\* The expected processed words of the matches ms of text, joined by one
\* space.
JoinExpected(text, ms) ==
    LET J[k \in 1..Len(ms)] ==
            IF k = Len(ms) THEN ExpectedWord(as_str(text, ms[k]), "normalize")
            ELSE ExpectedWord(as_str(text, ms[k]), "normalize") \o <<32>> \o J[k + 1]
    IN  IF ms = <<>> THEN <<>> ELSE J[1]

\* C2: after normalize the whole text of the buffer is the processed words
\* of the matches of the text before, in match order, joined by one space:
\* no space at either end, no non-word character of the old text in it, and
\* the empty string when nothing matched.
C2_NormalizeJoinsProcessedWords ==
    lastOp = "normalize" =>
        \A ms \in {find_iter(get(prevNorm))} :
            /\ get(norm) = JoinExpected(get(prevNorm), ms)
            /\ (ms = <<>> => get(norm) = <<>>)
            /\ (get(norm) # <<>> =>
                    get(norm)[1] # 32 /\ get(norm)[Len(get(norm))] # 32)
            /\ \A i \in 1..Len(get(norm)) : get(norm)[i] # 45

\* The byte range of the input that the range m of a segment's current text
\* is aligned with.
OriginalSpan(seg, m) ==
    <<seg.original_shift + seg.alignments[m[1] + 1][1],
      seg.original_shift + seg.alignments[m[2]][2]>>

\* C3: after pre_tokenize every word match of every segment has its own
\* sub-segment, whose range in the input is the range of that word in the
\* input and whose text is the processed word, whatever the segment's
\* offset and whatever edits its text went through.
C3_SubSegmentSpanAndText ==
    lastOp = "pre_tokenize" /\ result = "ok" =>
        \A i \in 1..Len(prevSplits) :
            \A ms \in {find_iter(get(prevSplits[i]))} :
                ms # <<>> =>
                    /\ Len(emitted[i]) = Len(ms)
                    /\ \A k \in 1..Len(ms) :
                        /\ get(emitted[i][k]) =
                              ExpectedWord(as_str(get(prevSplits[i]), ms[k]),
                                           "pre_tokenize")
                        /\ offsets_original(emitted[i][k]) =
                              OriginalSpan(prevSplits[i], ms[k])

\* C9: a segment with n >= 1 matches is replaced by n sub-segments in match
\* order; the k-th one lies inside the range of the k-th word and its text
\* is that word, lowercased or not, behind at most a marker, so nothing
\* outside the matches is covered or kept.
C9_OneSubSegmentPerMatch ==
    lastOp = "pre_tokenize" /\ result = "ok" =>
        \A i \in 1..Len(prevSplits) :
            \A ms \in {find_iter(get(prevSplits[i]))} :
                ms # <<>> =>
                    /\ Len(emitted[i]) = Len(ms)
                    /\ \A k \in 1..Len(ms) :
                        \A w \in {as_str(get(prevSplits[i]), ms[k])} :
                        \A o \in {offsets_original(emitted[i][k])} :
                        \A span \in {OriginalSpan(prevSplits[i], ms[k])} :
                            /\ span[1] <= o[1] /\ o[2] <= span[2]
                            /\ get(emitted[i][k]) \in
                                 {w} \cup {f[2] \o to_lowercase(w) : f \in MarkerForms}

MarkerWords == {SubSeq(f[1], 2, Len(f[1]) - 1) : f \in MarkerForms}

\* The text has a word of a category that takes a marker.
HasMarkedWord(text) ==
    \E ms \in {find_iter(text)} :
        \E k \in 1..Len(ms) : Category(as_str(text, ms[k])) \in Marked

\* C7: a second normalize of a text with a Capitalized, AllCaps or Mixed
\* word returns, changes the text again, and has processed the letters of a
\* marker as a word of their own.
C7_SecondNormalizeChangesText ==
    lastOp = "normalize" /\ nNorm = 2 /\ HasMarkedWord(input) =>
        /\ result = "ok"
        /\ get(norm) # get(prevNorm)
        /\ \E k \in 1..Len(words) : words[k].word \in MarkerWords

\* A second normalize of a text that had a marked word.
C7_Witness ==
    /\ lastOp = "normalize"
    /\ nNorm = 2
    /\ HasMarkedWord(input)
    /\ get(prevNorm) # input

\* The 1-based indices of the word matches of the segment whose slice
\* returns None.
FailingSlices(seg) ==
    The({{k \in 1..Len(ms) : ~slice_original(seg, ms[k][1], ms[k][2]).some} :
         ms \in {find_iter(get(seg))}})

\* The number of word matches of the first n segments.
SumMatches(ss, n) ==
    LET S[i \in 0..n] == IF i = 0 THEN 0 ELSE S[i - 1] + Len(find_iter(get(ss[i])))
    IN  S[n]

\* The number of slice calls up to and including the first that fails.
CallsToFirstFailure(ss) ==
    The({SumMatches(ss, i - 1) + Least(FailingSlices(ss[i])) :
         i \in {Least({j \in 1..Len(ss) : FailingSlices(ss[j]) # {}})}})

====
